---- MODULE Spec2Model ----
(***************************************************************************)
(* fwalker-rs, src/folder_selector.rs: the recursive Tree Builder          *)
(* (read_directory / build_node / read_children), the iterative Flat       *)
(* Collector (collect_paths) and the public wrapper read_directory_fast,   *)
(* run against a bounded family of filesystems.                            *)
(*                                                                         *)
(* A name is the sequence of its code points, a path the sequence of its   *)
(* components, so that to_lowercase, the string ordering and the path      *)
(* strings are computed rather than assumed.                               *)
(***************************************************************************)
EXTENDS Integers, Sequences, FiniteSets, TLC

\* ------------------------------------------------------------------------
\* Bounds of the model
\* ------------------------------------------------------------------------

\* max_depth is drawn from None and Some(0) .. Some(MaxL)
MaxL == 2

\* at most MaxFail filesystem calls fail per run
MaxFail == 1

\* ------------------------------------------------------------------------
\* Names, strings and paths
\* ------------------------------------------------------------------------

\* the file names "A", "B", "a" as code point sequences
NameUA == <<65>>
NameUB == <<66>>
NameLa == <<97>>

Names == {NameUA, NameUB, NameLa}

\* the path separator '/'
Sep == <<47>>

\* Option<T>
None == [some |-> FALSE]

Some(v) == [some |-> TRUE, val |-> v]

\* Result<T, E>
Ok(v) == [ok |-> TRUE, val |-> v]

Err(e) == [ok |-> FALSE, err |-> e]

\* str::to_lowercase on the ASCII range
to_lowercase(s) == [i \in DOMAIN s |-> IF s[i] \in 65..90 THEN s[i] + 32 ELSE s[i]]

\* Ord for String: lexicographic on the code points; -1 Less, 0 Equal, 1 Greater
RECURSIVE StrCmp(_, _)
StrCmp(s, t) ==
  IF s = <<>> THEN (IF t = <<>> THEN 0 ELSE -1)
  ELSE IF t = <<>> THEN 1
  ELSE IF Head(s) < Head(t) THEN -1
  ELSE IF Head(s) > Head(t) THEN 1
  ELSE StrCmp(Tail(s), Tail(t))

\* Path::to_string_lossy of an absolute path given by its components
RECURSIVE PathStr(_)
PathStr(p) ==
  IF p = <<>> THEN Sep
  ELSE IF Len(p) = 1 THEN Sep \o p[1]
  ELSE PathStr(SubSeq(p, 1, Len(p) - 1)) \o Sep \o p[Len(p)]

\* Path::file_name().and_then(to_str).unwrap_or(""): the last component, "" for "/"
FileName(p) == IF p = <<>> THEN <<>> ELSE p[Len(p)]

\* ------------------------------------------------------------------------
\* The filesystem
\* ------------------------------------------------------------------------

\* the paths that may exist; "/" itself (<<>>) always exists and is a directory
Universe ==
  { <<NameUA>>, <<NameLa>>, <<NameUB>>,
    <<NameUB, NameLa>>, <<NameUB, NameUB>>,
    <<NameUB, NameUB, NameLa>> }

Absent == [kind |-> "none", target |-> <<>>]

RegFile == [kind |-> "file", target |-> <<>>]

Dir == [kind |-> "dir", target |-> <<>>]

Link(t) == [kind |-> "link", target |-> t]

\* what each path of the universe may be
Choices(p) ==
  IF p = <<NameUA>> THEN {Absent, RegFile, Dir}
  ELSE IF p = <<NameLa>> THEN {Absent, RegFile, Dir, Link(<<NameUB>>), Link(<<NameLa>>)}
  ELSE IF p = <<NameUB>> THEN {Absent, RegFile, Dir, Link(<<>>)}
  ELSE IF p = <<NameUB, NameLa>> THEN {Absent, RegFile, Link(<<>>)}
  ELSE IF p = <<NameUB, NameUB>> THEN {Absent, RegFile, Dir}
  ELSE {Absent, RegFile}

NodeValues == UNION {Choices(p) : p \in Universe}

Parent(p) == SubSeq(p, 1, Len(p) - 1)

\* an entry exists only inside a directory
WellFormed(f) ==
  \A p \in Universe :
    /\ f[p] \in Choices(p)
    /\ (f[p].kind # "none" /\ Len(p) > 1) => f[Parent(p)].kind = "dir"

FileSystems == {f \in [Universe -> NodeValues] : WellFormed(f)}

Kind(f, p) ==
  IF p = <<>> THEN "dir"
  ELSE IF p \in Universe THEN f[p].kind
  ELSE "none"

\* the number of symbolic links the system follows before it gives up (ELOOP)
SymlinkHops == Cardinality(Universe)

\* path resolution: cur is resolved, rest is still to walk; follow tells whether
\* a symbolic link in the last component is followed (stat) or not (lstat)
RECURSIVE Walk(_, _, _, _, _)
Walk(f, cur, rest, follow, hops) ==
  IF rest = <<>> THEN Ok(cur)
  ELSE IF Kind(f, cur) # "dir" THEN Err("ENOTDIR")
  ELSE LET nxt == Append(cur, Head(rest))
           k == Kind(f, nxt)
       IN IF k = "none" THEN Err("ENOENT")
          ELSE IF k = "link" /\ (Len(rest) > 1 \/ follow)
            THEN IF hops = 0 THEN Err("ELOOP")
                 ELSE Walk(f, <<>>, f[nxt].target \o Tail(rest), follow, hops - 1)
          ELSE Walk(f, nxt, Tail(rest), follow, hops)

Resolve(f, p, follow) == Walk(f, <<>>, p, follow, SymlinkHops)

\* ------------------------------------------------------------------------
\* Filesystem access as the code sees it.  env holds the filesystem, the
\* paths on which an operation fails during the run, and the order in which
\* a directory listing delivers the entries:
\*   [fs, unreadable, badentry, nostat, nohint, ord]
\* ------------------------------------------------------------------------

\* Path::exists: fs::metadata(path).is_ok(), which follows symbolic links
exists(env, p) == Resolve(env.fs, p, TRUE).ok

\* fs::symlink_metadata(p) and then file_type(): the type of p itself
symlink_metadata(env, p) ==
  IF p \in env.nostat THEN Err("EIO")
  ELSE LET r == Resolve(env.fs, p, FALSE)
       IN IF r.ok THEN Ok(Kind(env.fs, r.val)) ELSE r

\* fs::read_dir(p): opens p (following links) and yields an item per entry:
\* Ok(name), or Err when reading that entry fails
read_dir(env, p) ==
  IF p \in env.unreadable THEN Err("EACCES")
  ELSE LET r == Resolve(env.fs, p, TRUE)
       IN IF ~r.ok THEN r
          ELSE IF Kind(env.fs, r.val) # "dir" THEN Err("ENOTDIR")
          ELSE LET names == SelectSeq(env.ord,
                              LAMBDA n : Kind(env.fs, Append(r.val, n)) # "none")
               IN Ok([i \in DOMAIN names |->
                        IF Append(p, names[i]) \in env.badentry
                          THEN Err("EIO") ELSE Ok(names[i])])

\* a type hint taken from fs::metadata, which follows symbolic links
entry_file_type_follow(env, path) ==
  IF path \in env.nohint THEN Err("EIO")
  ELSE LET r == Resolve(env.fs, path, TRUE)
       IN IF r.ok THEN Ok(Kind(env.fs, r.val)) ELSE r

\* DirEntry::file_type(): the type hint of the listing, symlinks not followed
entry_file_type(env, path) ==
  IF path \in env.nohint THEN Err("EIO")
  ELSE LET r == Resolve(env.fs, path, FALSE)
       IN IF r.ok THEN Ok(Kind(env.fs, r.val)) ELSE r

\* ------------------------------------------------------------------------
\* Tree Builder
\* ------------------------------------------------------------------------

FileNode(name, path, is_dir, children, has_more) ==
  [name |-> name, path |-> path, is_dir |-> is_dir,
   children |-> children, has_more |-> has_more]

\* dir_has_children with Err(_) => true
dir_has_children_err_true(env, p) ==
  LET rd == read_dir(env, p)
  IN IF rd.ok THEN rd.val # <<>> ELSE TRUE

dir_has_children(env, p) ==
  LET rd == read_dir(env, p)
  IN IF rd.ok THEN rd.val # <<>> ELSE FALSE

\* the comparator with the names compared as they are, not lower-cased
NodeCmp_case_sensitive(a, b) ==
  IF a.is_dir /\ ~b.is_dir THEN -1
  ELSE IF ~a.is_dir /\ b.is_dir THEN 1
  ELSE StrCmp(a.name, b.name)

\* the comparator of items.sort_by: -1 Less, 0 Equal, 1 Greater
NodeCmp(a, b) ==
  IF a.is_dir /\ ~b.is_dir THEN -1
  ELSE IF ~a.is_dir /\ b.is_dir THEN 1
  ELSE StrCmp(to_lowercase(a.name), to_lowercase(b.name))

\* slice::sort_by is stable: an item goes behind every item not greater than it
RECURSIVE InsertNode(_, _)
InsertNode(sorted, x) ==
  IF sorted = <<>> THEN <<x>>
  ELSE IF NodeCmp(Head(sorted), x) <= 0
    THEN <<Head(sorted)>> \o InsertNode(Tail(sorted), x)
  ELSE <<x>> \o sorted

RECURSIVE SortInto(_, _)
SortInto(sorted, rest) ==
  IF rest = <<>> THEN sorted
  ELSE SortInto(InsertNode(sorted, Head(rest)), Tail(rest))

\* read_children without its sort: the items in listing order
sort_by_nothing(items) == items

sort_by(items) == SortInto(<<>>, items)

\* the depth test with > for >=
at_limit_gt(depth, max_depth) == max_depth.some /\ depth > max_depth.val

\* if let Some(max) = max_depth { if depth >= max { .. } }
at_limit(depth, max_depth) == max_depth.some /\ depth >= max_depth.val

\* read_children passing the read_dir failure on
unreadable_children_err == Err("EACCES")

\* read_children when fs::read_dir fails: return Ok(vec![])
unreadable_children == Ok(<<>>)

RECURSIVE build_node(_, _, _, _)
RECURSIVE read_children(_, _, _, _)
RECURSIVE push_items(_, _, _, _, _)

build_node(env, p, depth, max_depth) ==
  LET meta == symlink_metadata(env, p)
  IN IF ~meta.ok THEN meta
     ELSE LET is_dir == meta.val = "dir"
              name == FileName(p)
              path_str == PathStr(p)
          IN IF is_dir
               THEN IF at_limit(depth, max_depth)
                      THEN Ok(FileNode(name, path_str, is_dir, None,
                                       Some(dir_has_children(env, p))))
                      ELSE LET children == read_children(env, p, depth + 1, max_depth)
                           IN IF ~children.ok THEN children
                              ELSE Ok(FileNode(name, path_str, is_dir,
                                               Some(children.val), Some(FALSE)))
               ELSE Ok(FileNode(name, path_str, is_dir, None, Some(FALSE)))

\* the for loop of read_children: a node per entry, a failed entry skipped
push_items(env, dir, entries, depth, max_depth) ==
  IF entries = <<>> THEN <<>>
  ELSE LET entry_res == Head(entries)
           r == build_node(env, Append(dir, entry_res.val), depth, max_depth)
       IN (IF entry_res.ok /\ r.ok THEN <<r.val>> ELSE <<>>)
            \o push_items(env, dir, Tail(entries), depth, max_depth)

read_children(env, dir, depth, max_depth) ==
  LET read == read_dir(env, dir)
  IN IF ~read.ok THEN unreadable_children
     ELSE Ok(sort_by(push_items(env, dir, read.val, depth, max_depth)))

NotFound(p) == [kind |-> "NotFound", msg |-> <<"Path not found: ", PathStr(p)>>]

\* the io::Error of a failed system call, passed on by the ? operator
OsError(e) ==
  [kind |-> IF e = "ENOENT" THEN "NotFound"
            ELSE IF e = "EACCES" THEN "PermissionDenied"
            ELSE "Other",
   msg |-> <<e>>]

read_directory(env, path, max_depth) ==
  IF ~exists(env, path) THEN Err(NotFound(path))
  ELSE LET r == build_node(env, path, 0, max_depth)
       IN IF r.ok THEN r ELSE Err(OsError(r.err))

\* ------------------------------------------------------------------------
\* Flat Collector
\* ------------------------------------------------------------------------

map_file_type(ft) ==
  IF ft = "dir" THEN "Directory"
  ELSE IF ft = "link" THEN "Link"
  ELSE "File"

\* entry.file_type().or_else(|_| symlink_metadata(&path).map(file_type)).ok()
entry_type(env, path) ==
  LET hint == entry_file_type(env, path)
  IN IF hint.ok THEN Some(hint.val)
     ELSE LET meta == symlink_metadata(env, path)
          IN IF meta.ok THEN Some(meta.val) ELSE None

\* max_depth.map_or(true, |m| depth + 1 <= m)
may_descend(depth, max_depth) == ~max_depth.some \/ depth + 1 <= max_depth.val

\* the for loop over one listing: st = [stack, out]
RECURSIVE visit_entries(_, _, _, _, _, _)
visit_entries(env, dir, depth, max_depth, entries, st) ==
  IF entries = <<>> THEN st
  ELSE LET entry_res == Head(entries)
           path == Append(dir, entry_res.val)
           ft == entry_type(env, path)
           mapped == map_file_type(ft.val)
           emitted == Append(st.out, <<PathStr(path), mapped>>)
           next == IF ~entry_res.ok \/ ~ft.some THEN st
                   ELSE IF mapped = "Directory" /\ may_descend(depth, max_depth)
                     THEN [stack |-> Append(st.stack, <<path, depth + 1>>), out |-> emitted]
                   ELSE [stack |-> st.stack, out |-> emitted]
       IN visit_entries(env, dir, depth, max_depth, Tail(entries), next)

\* one turn of the while loop: pop, list, emit, push
collect_iter(env, max_depth, st) ==
  LET top == st.stack[Len(st.stack)]
      popped == [stack |-> SubSeq(st.stack, 1, Len(st.stack) - 1), out |-> st.out]
      rd == read_dir(env, top[1])
  IN IF ~rd.ok THEN popped
     ELSE visit_entries(env, top[1], top[2], max_depth, rd.val, popped)

RECURSIVE collect_loop(_, _, _)
collect_loop(env, max_depth, st) ==
  IF st.stack = <<>> THEN st.out
  ELSE collect_loop(env, max_depth, collect_iter(env, max_depth, st))

collect_paths(env, root_path, max_depth) ==
  collect_loop(env, max_depth, [stack |-> <<<<root_path, 0>>>>, out |-> <<>>])

\* folder_formatter::json_formatting::format_paths: takes the root string and
\* the ordered list; its output is kept as the pair it was given
format_paths(root_str, children) == [root |-> root_str, entries |-> children]

read_directory_fast(env, path, max_depth) ==
  IF ~exists(env, path) THEN Err(NotFound(path))
  ELSE Ok(format_paths(PathStr(path), collect_paths(env, path, max_depth)))

\* ------------------------------------------------------------------------
\* The runs: a caller reads the same root twice with read_directory, twice
\* with collect_paths (one action per turn of its while loop) and once with
\* read_directory_fast.
\* ------------------------------------------------------------------------

VARIABLES
  fs,          \* the filesystem, unchanged during a behaviour
  root,        \* the path argument
  max_depth,   \* the max_depth argument: Option<u32>
  fail,        \* the failing operations: a set of <<operation, path>>
  order,       \* order[k]: the order of the listings during the k-th call
  pc,          \* "tree", "collect", "loop", "fast", "done"
  round,       \* 1 or 2: the first or the second call of the same function
  tree,        \* the value the last read_directory returned, None before
  tree_prev,   \* the value the read_directory before it returned
  stack,       \* collect_paths: the work stack of <<path, depth>>
  out,         \* collect_paths: the output list
  popped,      \* collect_paths: the paths popped so far, in order
  flat,        \* the value the last collect_paths returned, None before
  flat_prev,   \* the value the collect_paths before it returned
  fast         \* the value read_directory_fast returned, None before

vars ==
  <<fs, root, max_depth, fail, order, pc, round, tree, tree_prev,
    stack, out, popped, flat, flat_prev, fast>>

inputs == <<fs, root, max_depth, fail, order>>

\* the output list never grows beyond this many entries
MaxEmit == 8

FailSet(op) == {i[2] : i \in {j \in fail : j[1] = op}}

Env(k) ==
  [fs |-> fs, unreadable |-> FailSet("read_dir"), badentry |-> FailSet("entry"),
   nostat |-> FailSet("symlink_metadata"), nohint |-> FailSet("file_type"),
   ord |-> order[k]]

\* the same filesystem with every operation succeeding
EnvNoFail(k) ==
  [fs |-> fs, unreadable |-> {}, badentry |-> {}, nostat |-> {}, nohint |-> {},
   ord |-> order[k]]

Roots == {<<>>, <<NameLa>>, <<NameUB>>}

Depths == {None} \cup {Some(n) : n \in 0..MaxL}

\* a listing delivers the names in ascending or in descending code point order
AscOrder == <<NameUA, NameUB, NameLa>>

DescOrder == <<NameLa, NameUB, NameUA>>

ListingOrders == {AscOrder, DescOrder}

RECURSIVE SubsetsUpTo(_, _)
SubsetsUpTo(S, k) ==
  IF k = 0 THEN {{}}
  ELSE LET prev == SubsetsUpTo(S, k - 1)
       IN prev \cup {s \cup {x} : s \in prev, x \in S}

IsPrefix(p, q) == Len(p) <= Len(q) /\ SubSeq(q, 1, Len(p)) = p

\* the paths a run from r can touch when no link is followed
Below(f, r) == {p \in Universe \cup {<<>>} : Kind(f, p) # "none" /\ IsPrefix(r, p)}

\* the operations that may fail during a run from r
Failures(f, r) ==
  {<<"read_dir", p>> : p \in {q \in Below(f, r) : Kind(f, q) = "dir"}}
    \cup {<<"symlink_metadata", p>> : p \in Below(f, r) \ {<<>>}}
    \cup {<<"file_type", p>> : p \in Below(f, r) \ {r}}
    \cup {<<"entry", p>> : p \in Below(f, r) \ {r}}

\* the filesystems on which failures are injected: /a a file, /B/B a directory
FaultyFileSystems ==
  {f \in FileSystems :
     /\ f[<<NameUA>>] \in {Absent, RegFile}
     /\ f[<<NameLa>>] = RegFile
     /\ f[<<NameUB, NameUB>>] = Dir}

\* nothing has been called yet
Init ==
  /\ fs = [p \in Universe |-> Absent]
  /\ root = <<>>
  /\ max_depth = None
  /\ fail = {}
  /\ order = <<AscOrder, AscOrder>>
  /\ pc = "start"
  /\ round = 1
  /\ tree = None
  /\ tree_prev = None
  /\ stack = <<>>
  /\ out = <<>>
  /\ popped = <<>>
  /\ flat = None
  /\ flat_prev = None
  /\ fast = None

\* a run in which every operation succeeds
Plain(depths) ==
  /\ fs' \in FileSystems
  /\ root' \in Roots
  /\ max_depth' \in depths
  /\ fail' = {}
  /\ order' \in ListingOrders \X ListingOrders

\* a run in which some operations fail
Faulty(depths) ==
  /\ fs' \in FaultyFileSystems
  /\ root' \in {<<>>, <<NameUB>>}
  /\ max_depth' \in depths
  /\ fail' \in SubsetsUpTo(Failures(fs', root'), MaxFail) \ {{}}
  /\ order' \in {DescOrder} \X ListingOrders

\* the caller's arguments and the filesystem they meet
Setup(depths) ==
  /\ pc = "start"
  /\ Plain(depths) \/ Faulty(depths)
  /\ pc' = "tree"
  /\ UNCHANGED <<round, tree, tree_prev, stack, out, popped, flat, flat_prev, fast>>

SetupAny == Setup(Depths)

SetupUnbounded == Setup({None})

NextRound(after) ==
  IF round = 1 THEN round' = 2 /\ pc' = pc ELSE round' = 1 /\ pc' = after

ReadDirectory ==
  /\ pc = "tree"
  /\ tree' = Some(read_directory(Env(round), root, max_depth))
  /\ tree_prev' = tree
  /\ NextRound("collect")
  /\ UNCHANGED <<inputs, stack, out, popped, flat, flat_prev, fast>>

\* collect_paths up to its while loop
CollectStart ==
  /\ pc = "collect"
  /\ stack' = <<<<root, 0>>>>
  /\ out' = <<>>
  /\ popped' = <<>>
  /\ pc' = "loop"
  /\ UNCHANGED <<inputs, round, tree, tree_prev, flat, flat_prev, fast>>

\* one turn of the while loop
CollectIter ==
  /\ pc = "loop"
  /\ stack # <<>>
  /\ Len(out) <= MaxEmit
  /\ LET st == collect_iter(Env(round), max_depth, [stack |-> stack, out |-> out])
     IN /\ stack' = st.stack
        /\ out' = st.out
  /\ popped' = Append(popped, stack[Len(stack)][1])
  /\ UNCHANGED <<inputs, pc, round, tree, tree_prev, flat, flat_prev, fast>>

\* the stack is empty: collect_paths returns out
CollectReturn ==
  /\ pc = "loop"
  /\ stack = <<>>
  /\ flat' = Some(out)
  /\ flat_prev' = flat
  /\ IF round = 1 THEN round' = 2 /\ pc' = "collect" ELSE round' = 1 /\ pc' = "fast"
  /\ UNCHANGED <<inputs, stack, out, popped, tree, tree_prev, fast>>

ReadDirectoryFast ==
  /\ pc = "fast"
  /\ fast' = Some(read_directory_fast(Env(round), root, max_depth))
  /\ pc' = "done"
  /\ UNCHANGED <<inputs, round, tree, tree_prev, stack, out, popped, flat, flat_prev>>

Calls ==
  \/ ReadDirectory
  \/ CollectStart
  \/ CollectIter
  \/ CollectReturn
  \/ ReadDirectoryFast

Next == SetupAny \/ Calls

Spec == Init /\ [][Next]_vars

\* the runs with max_depth absent
NextUnbounded == SetupUnbounded \/ Calls

\* the guard of CollectIter, which changes popped whenever it is taken:
\* ENABLED <<CollectIter>>_vars written out
CollectIterEnabled == pc = "loop" /\ stack # <<>> /\ Len(out) <= MaxEmit

\* weak fairness of CollectIter, WF_vars(CollectIter), by its definition
FairCollectIter == []<>(~CollectIterEnabled) \/ []<><<CollectIter>>_vars

\* the while loop of collect_paths runs on: the code is sequential and
\* nothing blocks a turn of the loop or its return
LiveSpec ==
  Init /\ [][NextUnbounded]_vars /\ FairCollectIter /\ WF_vars(CollectReturn)

\* sanity: the loop taken step by step returns what collect_paths returns
StepwiseAgrees ==
  /\ Len(out) <= MaxEmit
  /\ flat.some => flat.val = collect_paths(Env(IF pc \in {"fast", "done"} THEN 2 ELSE 1), root, max_depth)

\* ------------------------------------------------------------------------
\* What the claims speak about
\* ------------------------------------------------------------------------

\* the type of p itself in the filesystem, "none" when p does not resolve
ActualKind(p) ==
  LET r == Resolve(fs, p, FALSE)
  IN IF r.ok THEN Kind(fs, r.val) ELSE "none"

\* the names the directory p holds in the filesystem
ActualEntries(p) ==
  LET r == Resolve(fs, p, TRUE)
  IN IF r.ok /\ Kind(fs, r.val) = "dir"
       THEN {n \in Names : Kind(fs, Append(r.val, n)) # "none"}
       ELSE {}

\* the nodes of a tree, each with its depth and its path (root: depth 0)
RECURSIVE TreeNodes(_, _, _)
TreeNodes(n, d, p) ==
  {[node |-> n, depth |-> d, path |-> p]}
    \cup (IF n.children.some
            THEN UNION {TreeNodes(n.children.val[i], d + 1, Append(p, n.children.val[i].name)) :
                          i \in DOMAIN n.children.val}
            ELSE {})

TreeReturned == tree.some /\ tree.val.ok

Nodes == TreeNodes(tree.val.val, 0, root)

\* the round in which tree was built
TreeRound == IF pc = "tree" THEN 1 ELSE 2

\* the round in which flat was collected
FlatRound == IF pc \in {"fast", "done"} THEN 2 ELSE 1

\* a directory node that was not expanded
Truncated(n) == n.is_dir /\ ~n.children.some

\* the path strings of the nodes below the root of the returned tree
TreePaths == {e.node.path : e \in {x \in Nodes : x.depth > 0}}

\* the path strings collect_paths returned
FlatPaths == {flat.val[i][1] : i \in DOMAIN flat.val}

\* both strategies have returned for the same root, max_depth and listing order
BothReturned == pc \in {"fast", "done"} /\ TreeReturned /\ flat.some

\* sanity: every node carries the name and the path string of its path
NodesNamed ==
  TreeReturned =>
    \A e \in Nodes : e.node.path = PathStr(e.path) /\ e.node.name = FileName(e.path)

\* ------------------------------------------------------------------------
\* C1
\* ------------------------------------------------------------------------

\* C1: in the tree read_directory returns, a node has children present iff it
\* is a directory at depth < L (or max_depth is absent); a directory at depth
\* L has children absent and no node lies deeper than L.
C1_ChildrenIffBelowLimit ==
  TreeReturned =>
    \A e \in Nodes :
      /\ e.node.is_dir = (ActualKind(e.path) = "dir")
      /\ e.node.children.some
           <=> (ActualKind(e.path) = "dir" /\ (~max_depth.some \/ e.depth < max_depth.val))
      /\ max_depth.some => e.depth <= max_depth.val

\* a tree with an expanded root and, at the limit, a directory that holds entries
C1_Witness ==
  /\ TreeReturned
  /\ max_depth.some
  /\ \E e \in Nodes :
       /\ e.depth = max_depth.val
       /\ e.depth > 0
       /\ e.node.is_dir
       /\ ~e.node.children.some
       /\ ActualEntries(e.path) # {}

\* ------------------------------------------------------------------------
\* C2
\* ------------------------------------------------------------------------

C3_SameDepthRule ==
  (BothReturned /\ fail = {} /\ ActualKind(root) = "dir") => TreePaths = FlatPaths

\* ------------------------------------------------------------------------
\* C4
\* ------------------------------------------------------------------------

\* the root exists at call time, as Path::exists sees it
RootExists == Resolve(fs, root, TRUE).ok

\* C4: read_directory and read_directory_fast return an error iff the root
\* does not exist at call time, and that error is NotFound with the path; no
\* other failure is surfaced.
C4_ErrorIffRootMissing ==
  /\ tree.some =>
       /\ ~tree.val.ok <=> ~RootExists
       /\ ~tree.val.ok => tree.val.err = NotFound(root)
  /\ fast.some =>
       /\ ~fast.val.ok <=> ~RootExists
       /\ ~fast.val.ok => fast.val.err = NotFound(root)

\* ------------------------------------------------------------------------
\* C5
\* ------------------------------------------------------------------------

\* what the failures take away from a tree built without them: an entry that
\* cannot be read, or whose metadata cannot be read, is left out, a directory
\* that cannot be opened keeps no children (and, truncated, reports
\* has_more = false)
RECURSIVE Prune(_, _)
Prune(n, p) ==
  IF n.children.some
    THEN IF <<"read_dir", p>> \in fail
           THEN [n EXCEPT !.children = Some(<<>>)]
           ELSE LET kept == SelectSeq(n.children.val,
                              LAMBDA c : /\ <<"symlink_metadata", Append(p, c.name)>> \notin fail
                                         /\ <<"entry", Append(p, c.name)>> \notin fail)
                IN [n EXCEPT !.children =
                      Some([i \in DOMAIN kept |-> Prune(kept[i], Append(p, kept[i].name))])]
  ELSE IF n.is_dir /\ <<"read_dir", p>> \in fail
    THEN [n EXCEPT !.has_more = Some(FALSE)]
  ELSE n

\* the tree read_directory builds when every operation succeeds
TreeWithoutFailures == build_node(EnvNoFail(TreeRound), root, 0, max_depth).val

\* C5: a failure below the root never aborts the build: an unreadable
\* directory that would be expanded appears with an empty children list, an
\* entry whose node cannot be built is omitted, and everything else appears
\* exactly as it would without the failure.
C5_FailuresBelowRootAbsorbed ==
  (tree.some /\ RootExists /\ <<"symlink_metadata", root>> \notin fail) =>
    /\ tree.val.ok
    /\ tree.val.val = Prune(TreeWithoutFailures, root)

\* a failure below the root that changed the tree, the root keeping children
C5_Witness ==
  /\ TreeReturned
  /\ fail # {}
  /\ tree.val.val # TreeWithoutFailures
  /\ tree.val.val.children.some
  /\ Len(tree.val.val.children.val) >= 2

\* ------------------------------------------------------------------------
\* C6
\* ------------------------------------------------------------------------

\* C6: with max_depth absent and every operation succeeding, collect_paths
\* emits exactly the paths of the non-root nodes of the tree, for a root of
\* any kind.
C6_UnboundedSamePaths ==
  (BothReturned /\ fail = {} /\ ~max_depth.some) => TreePaths = FlatPaths

\* ------------------------------------------------------------------------
\* C7
\* ------------------------------------------------------------------------

\* the paths collect_paths popped and could open for listing
Opened == {popped[i] : i \in {j \in DOMAIN popped : read_dir(Env(1), popped[j]).ok}}

\* some component of p, the last one excepted when strict, is a symbolic link
ThroughLink(p, strict) ==
  \E k \in 1..(Len(p) - (IF strict THEN 1 ELSE 0)) : ActualKind(SubSeq(p, 1, k)) = "link"

\* the path below the root whose string is str
CallPathOf(str) == CHOOSE p \in {root \o q : q \in Universe} : PathStr(p) = str

\* C7: in both strategies a symbolic link is classified as a link, its
\* target is never opened for listing and nothing is emitted through it, the
\* root included.
C7_LinksNeverFollowed ==
  /\ TreeReturned =>
       \A e \in Nodes :
         /\ ActualKind(e.path) = "link" => (~e.node.is_dir /\ ~e.node.children.some)
         /\ ~ThroughLink(e.path, TRUE)
  /\ \A p \in Opened : ActualKind(p) # "link"
  /\ \A i \in DOMAIN out :
       LET p == CallPathOf(out[i][1])
       IN /\ ActualKind(p) = "link" => out[i][2] = "Link"
          /\ ~ThroughLink(p, TRUE)

\* ------------------------------------------------------------------------
\* C8
\* ------------------------------------------------------------------------

\* the children lists of the returned tree
ChildrenLists == {e.node.children.val : e \in {x \in Nodes : x.node.children.some}}

\* C8: in every children list all directories precede all non-directories and
\* within each group the lower-cased names are non-decreasing.
C8_ChildrenSorted ==
  TreeReturned =>
    \A c \in ChildrenLists :
      \A i, j \in DOMAIN c :
        i < j =>
          /\ ~(~c[i].is_dir /\ c[j].is_dir)
          /\ c[i].is_dir = c[j].is_dir
               => StrCmp(to_lowercase(c[i].name), to_lowercase(c[j].name)) <= 0

\* three children, directories and others, that the listing delivered with a
\* file first and in descending name order
C8_Witness ==
  /\ TreeReturned
  /\ order[TreeRound] = DescOrder
  /\ \E c \in ChildrenLists :
       /\ Len(c) = 3
       /\ c[1].is_dir
       /\ ~c[2].is_dir
       /\ c[1].name = NameUB
       /\ c[2].name = NameLa

\* ------------------------------------------------------------------------
\* C9
\* ------------------------------------------------------------------------

TwoTrees == tree.some /\ tree_prev.some

TwoLists == flat.some /\ flat_prev.some

\* C9 as stated: two consecutive calls return identical results, whatever
\* the order in which the listings deliver the entries.
C9_IdenticalWhateverTheListingOrder ==
  /\ TwoTrees => tree = tree_prev
  /\ TwoLists => flat = flat_prev

\* two siblings of the same kind whose names are equal but for their case
HasTies ==
  \E c \in ChildrenLists :
    \E i, j \in DOMAIN c :
      /\ i # j
      /\ c[i].is_dir = c[j].is_dir
      /\ to_lowercase(c[i].name) = to_lowercase(c[j].name)

\* a node without its children, which its own entries of TreeNodes carry
Flat(e) == [e EXCEPT !.node.children = e.node.children.some]

SameNodes(a, b) ==
  /\ a.ok = b.ok
  /\ a.ok => {Flat(e) : e \in TreeNodes(a.val, 0, root)}
               = {Flat(e) : e \in TreeNodes(b.val, 0, root)}
  /\ ~a.ok => a = b

ListItems(l) == {l[i] : i \in DOMAIN l}

\* C9 as amended: two consecutive calls return identical results when the
\* listings deliver the entries in the same order; when they do not, the two
\* trees hold the same nodes and are identical unless two siblings of the
\* same kind have names equal but for their case, and the two lists hold the
\* same entries, each once, in an order that may differ.
C9_IdenticalUpToListingOrder ==
  /\ TwoTrees =>
       /\ SameNodes(tree.val, tree_prev.val)
       /\ (order[1] = order[2] \/ ~tree.val.ok \/ ~HasTies) => tree = tree_prev
  /\ TwoLists =>
       /\ ListItems(flat.val) = ListItems(flat_prev.val)
       /\ Len(flat.val) = Len(flat_prev.val)
       /\ order[1] = order[2] => flat = flat_prev

\* two calls under different listing orders: equal trees with three
\* children and no ties, and two lists that differ in order alone
C9_Witness ==
  /\ TwoTrees
  /\ TwoLists
  /\ order[1] # order[2]
  /\ TreeReturned
  /\ ~HasTies
  /\ \E c \in ChildrenLists : Len(c) >= 2
  /\ tree = tree_prev
  /\ flat # flat_prev

\* ------------------------------------------------------------------------
\* C10
\* ------------------------------------------------------------------------

NoDuplicates(seq) == \A i, j \in DOMAIN seq : seq[i] = seq[j] => i = j

\* the directory a popped path stands for
Directory(p) == Resolve(fs, p, TRUE)

\* no directory is popped twice or waits on the stack after it was popped,
\* and no path is emitted twice
CollectOnce ==
  /\ NoDuplicates([i \in DOMAIN popped |-> Directory(popped[i])])
  /\ NoDuplicates([i \in DOMAIN stack |-> stack[i][1]])
  /\ \A i \in DOMAIN stack : \A j \in DOMAIN popped : stack[i][1] # popped[j]
  /\ NoDuplicates([i \in DOMAIN out |-> out[i][1]])

\* C10: with max_depth absent, on a filesystem that may hold symbolic link
\* cycles, collect_paths terminates: the work stack becomes empty, no
\* directory is pushed or popped twice and no path is emitted twice.
C10_CollectTerminates ==
  /\ [](~max_depth.some => CollectOnce)
  /\ (pc = "loop" /\ ~max_depth.some) ~> (pc # "loop" /\ stack = <<>>)

\* a symbolic link below the root that leads back to "/"
CycleBelowRoot ==
  \E p \in Universe :
    /\ IsPrefix(root, p)
    /\ Kind(fs, p) = "link"
    /\ fs[p].target = <<>>

\* collect_paths returned from a root that holds a link back to an ancestor,
\* with max_depth absent, after it emitted that link and popped three
\* directories
C10_Witness ==
  /\ ~max_depth.some
  /\ pc = "done"
  /\ CycleBelowRoot
  /\ Len(popped) >= 3
  /\ \E i \in DOMAIN flat.val : flat.val[i][2] = "Link"
  /\ stack = <<>>

====
